---- MODULE Spec2Model ----
(***************************************************************************)
(* Plan My Outings backend (src/backend/main.py): the relational tables,   *)
(* the process-wide response cache, the two provider adapters and the      *)
(* request handlers, modelled as a state machine.                          *)
(*                                                                         *)
(* Numbers that are floats in the program are kept as scaled integers:     *)
(* ratings in hundredths (4.0 is 400), timestamps in whole seconds.        *)
(***************************************************************************)
EXTENDS Integers, Sequences, FiniteSets, TLC

VARIABLES groups, members, suggestions, polls, chat_messages,
          cache, now, env, sess, response, cast

vars == <<groups, members, suggestions, polls, chat_messages,
          cache, now, env, sess, response, cast>>

db == <<groups, members, suggestions, polls, chat_messages>>

(***************************************************************************)
(* Bounds of the model.                                                    *)
(***************************************************************************)
MaxGroups == 2
MaxPolls == 2
MaxVotes == 2
MaxMembers == 2
MaxNow == 3602
MaxSuggestions == 6
MaxChat == 1

(***************************************************************************)
(* Input domains.                                                          *)
(***************************************************************************)
None == "None"

\* generate_code() draws from 36^6 codes; two stand for them here, a third
\* is a code callers send that generate_code is never seen to produce.
Codes == {"AAAAAA", "BBBBBB"}
RequestCodes == Codes \cup {"NOTEXIST"}

Moods == {None, "chill"}
BudgetLevels == {None, "low"}

OptionLists == {<<"opt1", "opt2">>}
OptionIds == {"opt1", "opt2", "ghost"}
MemberIds == {1, 2}
Emojis == {"thumbsup"}
VoteRequests == [member_id : MemberIds, option_id : OptionIds, emoji : Emojis]
\* Optional[float]: <<>> is None, <<x>> the number x
Null == <<>>
Some(x) == <<x>>
Coords == {Null, Some(0), Some(12)}
Sessions == {"s1", "s2"}

\* a Python dict is a function from its keys; dict.get(key, default)
dict_get(d, key, default) == IF key \in DOMAIN d THEN d[key] ELSE default

\* seq[:n]
take(seq, n) == SubSeq(seq, 1, IF Len(seq) < n THEN Len(seq) ELSE n)

\* get_mock_places (lines 225-233); ratings in hundredths
get_mock_places ==
    << [name |-> Some("Cubbon Park"), rating |-> Some(450), price_level |-> Some(0),
        place_id |-> Some("mock_1")],
       [name |-> Some("Wonderla"), rating |-> Some(430), price_level |-> Some(3),
        place_id |-> Some("mock_2")],
       [name |-> Some("Cafe Coffee Day"), rating |-> Some(400), price_level |-> Some(1),
        place_id |-> Some("mock_3")],
       [name |-> Some("Lalbagh Botanical Garden"), rating |-> Some(460),
        price_level |-> Some(0), place_id |-> Some("mock_4")] >>

\* get_mock_movies (lines 235-243); vote averages in hundredths
get_mock_movies ==
    << [title |-> Some("Zindagi Na Milegi Dobara"), vote_average |-> Some(810),
        id |-> Some(12345)],
       [title |-> Some("Dil Chahta Hai"), vote_average |-> Some(800), id |-> Some(12346)],
       [title |-> Some("Queen"), vote_average |-> Some(780), id |-> Some(12347)],
       [title |-> Some("3 Idiots"), vote_average |-> Some(840), id |-> Some(12348)] >>

\* records a live provider returns
LivePlace == [name |-> Some("Live Cafe"), rating |-> Some(420), price_level |-> Some(2),
              place_id |-> Some("live_1"), geometry |-> Some("geo")]
LiveMovie == [title |-> Some("Live Movie"), vote_average |-> Some(720), id |-> Some(777),
              overview |-> Some("plot")]

repeat(x, n) == [i \in 1..n |-> x]

\* a provider record with each optional field present, null or left out
FieldShapes == {"value", "null", "absent"}
shaped(base, optional, shape) ==
    [k \in {f \in DOMAIN base : f \in optional => shape[f] # "absent"} |->
        IF k \in optional /\ shape[k] = "null" THEN Null ELSE base[k]]
PriceTiers == {0, 2}
PlaceOptional == {"rating", "price_level", "geometry"}
MovieOptional == {"vote_average", "title", "overview"}
PlaceCandidates ==
    {shaped([LivePlace EXCEPT !.price_level = Some(t)], PlaceOptional, shape) :
        t \in PriceTiers, shape \in [PlaceOptional -> FieldShapes]}
MovieCandidates ==
    {shaped(LiveMovie, MovieOptional, shape) : shape \in [MovieOptional -> FieldShapes]}
Sources == {"google", "tmdb", "yelp"}

\* what one outbound call can come to: no answer within the 10 s timeout,
\* a transport error, a body that is not the JSON object expected, or a
\* JSON object.  A JSON object may lack "results" or carry null for it.
FailedCalls == {[kind |-> "timeout"], [kind |-> "error"], [kind |-> "bad_json"]}
ResultLists(c) == {<<>>, <<c>>, repeat(c, 11)}
Bodies(statuses, c) ==
    [kind : {"json"}, status : statuses, has_results : {FALSE}, results : {Null}]
    \cup [kind : {"json"}, status : statuses, has_results : {TRUE},
          results : {Null} \cup {Some(l) : l \in ResultLists(c)}]
\* Places answers carry a status field; TMDb answers do not
PlacesAnswers(c) == FailedCalls \cup Bodies({"OK", "ZERO_RESULTS"}, c)
MoviesAnswers(c) == FailedCalls \cup Bodies({None}, c)

\* centroids are exact fractions <<numerator, denominator>>;
\* the default location (12.9716, 77.5946) in ten-thousandths
DefaultLat == <<129716, 10000>>
DefaultLng == <<775946, 10000>>

(***************************************************************************)
(* Helpers over the tables.  A row's id is its position: ids are assigned  *)
(* by the autoincrement primary key and no handler deletes a row.          *)
(***************************************************************************)
\* select(Group).where(Group.code == code).first(): the id, or 0 for None
group_by_code(code) ==
    IF \E i \in 1..Len(groups) : groups[i].code = code
    THEN CHOOSE i \in 1..Len(groups) :
            /\ groups[i].code = code
            /\ \A j \in 1..Len(groups) : groups[j].code = code => i <= j
    ELSE 0

\* poll_by_id with the where clause lost: a miss yields the first row
poll_by_id_first_row(poll_id) ==
    IF poll_id \in 1..Len(polls) THEN poll_id
    ELSE IF Len(polls) > 0 THEN 1 ELSE 0

\* select(Poll).where(Poll.id == poll_id).first(): the id, or 0 for None
poll_by_id(poll_id) ==
    IF poll_id \in 1..Len(polls) THEN poll_id ELSE 0

\* append_vote that keeps one entry per member on an option
append_vote_dedup(votes, req) ==
    LET entry == [member_id |-> req.member_id, emoji |-> req.emoji]
        withKey == [o \in (DOMAIN votes) \cup {req.option_id} |->
                       IF o \in DOMAIN votes THEN votes[o] ELSE <<>>]
        old == withKey[req.option_id]
    IN  IF \E i \in 1..Len(old) : old[i].member_id = req.member_id
        THEN withKey
        ELSE [withKey EXCEPT ![req.option_id] = Append(@, entry)]

\* lines 506-515: votes = poll.votes or {}; create the list if absent;
\* append the entry
append_vote(votes, req) ==
    LET entry == [member_id |-> req.member_id, emoji |-> req.emoji]
        withKey == [o \in (DOMAIN votes) \cup {req.option_id} |->
                       IF o \in DOMAIN votes THEN votes[o] ELSE <<>>]
    IN  [withKey EXCEPT ![req.option_id] = Append(@, entry)]

\* number of entries in a ledger
RECURSIVE ledger_size(_, _)
ledger_size(votes, keys) ==
    IF keys = {} THEN 0
    ELSE LET k == CHOOSE k \in keys : TRUE
         IN  Len(votes[k]) + ledger_size(votes, keys \ {k})

EmptyLedger == [o \in {} |-> <<>>]

(***************************************************************************)
(* Initial state: empty tables, empty cache, every session idle.           *)
(***************************************************************************)
IdleSession == [pc |-> "idle"]

Init ==
    /\ groups = <<>>
    /\ members = <<>>
    /\ suggestions = <<>>
    /\ polls = <<>>
    /\ chat_messages = <<>>
    /\ cache = [k \in {} |-> None]
    /\ now = 0
    /\ env = [GOOGLE_PLACES_KEY |-> FALSE, TMDB_API_KEY |-> FALSE]
    /\ sess = [s \in Sessions |-> IdleSession]
    /\ response = [op |-> "none", status |-> 0]
    /\ cast = <<>>

(***************************************************************************)
(* Handlers.                                                               *)
(***************************************************************************)
\* POST /group were Group.code not declared unique
create_group_no_unique(code, mood, budget_level) ==
    /\ Len(groups) < MaxGroups
    /\ groups' = Append(groups, [code |-> code, mood |-> mood,
                                 budget_level |-> budget_level])
    /\ response' = [op |-> "create_group", status |-> 200, code |-> code]
    /\ UNCHANGED <<members, suggestions, polls, chat_messages, cache, now, env, sess, cast>>

\* POST /group.  Group.code is declared unique (line 18): the commit of a
\* row whose code is taken raises and the request fails with no row added.
create_group(code, mood, budget_level) ==
    /\ Len(groups) < MaxGroups
    /\ IF \E i \in 1..Len(groups) : groups[i].code = code
       THEN /\ response' = [op |-> "create_group", status |-> 500, code |-> code]
            /\ UNCHANGED groups
       ELSE /\ groups' = Append(groups, [code |-> code, mood |-> mood,
                                         budget_level |-> budget_level])
            /\ response' = [op |-> "create_group", status |-> 200, code |-> code]
    /\ UNCHANGED <<members, suggestions, polls, chat_messages, cache, now, env, sess, cast>>

\* POST /group/{code}/join
join_group(code, lat, lng) ==
    /\ Len(members) < MaxMembers
    /\ LET g == group_by_code(code)
       IN  IF g = 0
           THEN /\ response' = [op |-> "join_group", status |-> 404, code |-> code]
                /\ UNCHANGED members
           ELSE /\ members' = Append(members, [group_id |-> g,
                                               location_lat |-> lat,
                                               location_lng |-> lng])
                /\ response' = [op |-> "join_group", status |-> 200, code |-> code]
    /\ UNCHANGED <<groups, suggestions, polls, chat_messages, cache, now, env, sess, cast>>

\* GET /group/{code}
get_group(code) ==
    /\ LET g == group_by_code(code)
       IN  IF g = 0
           THEN response' = [op |-> "get_group", status |-> 404, code |-> code]
           ELSE response' = [op |-> "get_group", status |-> 200, code |-> code,
                             members |-> {i \in 1..Len(members) : members[i].group_id = g},
                             polls |-> {i \in 1..Len(polls) : polls[i].group_id = g}]
    /\ UNCHANGED <<groups, members, suggestions, polls, chat_messages, cache, now, env, sess, cast>>

\* POST /group/{code}/polls
create_poll(code, options) ==
    /\ Len(polls) < MaxPolls
    /\ LET g == group_by_code(code)
       IN  IF g = 0
           THEN /\ response' = [op |-> "create_poll", status |-> 404, code |-> code]
                /\ UNCHANGED <<polls, cast>>
           ELSE /\ polls' = Append(polls, [group_id |-> g,
                                           options |-> [options |-> options],
                                           votes |-> EmptyLedger])
                /\ cast' = Append(cast, EmptyLedger)
                /\ response' = [op |-> "create_poll", status |-> 200, code |-> code]
    /\ UNCHANGED <<groups, members, suggestions, chat_messages, cache, now, env, sess>>

\* lines 512-513 seen from outside: the entry a successful call casts is
\* added to the record of what was cast on that option, in call order
record_cast(ledger, req) ==
    [o \in (DOMAIN ledger) \cup {req.option_id} |->
        LET old == IF o \in DOMAIN ledger THEN ledger[o] ELSE <<>>
        IN  IF o = req.option_id
            THEN old \o <<[member_id |-> req.member_id, emoji |-> req.emoji]>>
            ELSE old]

\* entries cast so far, over all polls
RECURSIVE total_cast(_)
total_cast(ledgers) ==
    IF ledgers = <<>> THEN 0
    ELSE ledger_size(Head(ledgers), DOMAIN Head(ledgers)) + total_cast(Tail(ledgers))

\* POST /group/{code}/polls/{poll_id}/vote, the whole handler in one
\* request served alone.  The code path parameter is not used by the body.
vote_poll(code, poll_id, req) ==
    /\ LET p == poll_by_id(poll_id)
       IN  IF p = 0
           THEN /\ response' = [op |-> "vote_poll", status |-> 404, code |-> code,
                                poll_id |-> poll_id]
                /\ UNCHANGED <<polls, cast>>
           ELSE /\ total_cast(cast) < MaxVotes
                /\ polls' = [polls EXCEPT ![p].votes = append_vote(@, req)]
                /\ cast' = [cast EXCEPT ![p] = record_cast(@, req)]
                /\ response' = [op |-> "vote_poll", status |-> 200, code |-> code,
                                poll_id |-> poll_id]
    /\ UNCHANGED <<groups, members, suggestions, chat_messages, cache, now, env, sess>>

(***************************************************************************)
(* vote_poll as the requests of two clients run it: each request has its   *)
(* own Session (get_session, lines 97-99) and runs in its own worker       *)
(* thread.  The select of line 502 loads the row into the session; lines   *)
(* 506-517 change the loaded copy and write the whole votes column back.   *)
(***************************************************************************)
vote_load(s, code, poll_id, req) ==
    /\ sess[s].pc = "idle"
    /\ total_cast(cast) + Cardinality({t \in Sessions : sess[t].pc = "loaded"}) < MaxVotes
    /\ LET p == poll_by_id(poll_id)
       IN  IF p = 0
           THEN /\ response' = [op |-> "vote_poll", status |-> 404, code |-> code,
                                poll_id |-> poll_id]
                /\ UNCHANGED sess
           ELSE /\ sess' = [sess EXCEPT ![s] = [pc |-> "loaded", poll_id |-> p,
                                                 req |-> req, code |-> code,
                                                 votes |-> polls[p].votes]]
                /\ UNCHANGED response
    /\ UNCHANGED <<groups, members, suggestions, polls, chat_messages, cache, now, env, cast>>

vote_commit(s) ==
    /\ sess[s].pc = "loaded"
    /\ LET p == sess[s].poll_id
           req == sess[s].req
       IN  /\ polls' = [polls EXCEPT ![p].votes = append_vote(sess[s].votes, req)]
           /\ cast' = [cast EXCEPT ![p] = record_cast(@, req)]
           /\ response' = [op |-> "vote_poll", status |-> 200, code |-> sess[s].code,
                           poll_id |-> p]
    /\ sess' = [sess EXCEPT ![s] = IdleSession]
    /\ UNCHANGED <<groups, members, suggestions, chat_messages, cache, now, env>>

(***************************************************************************)
(* The response cache and the two provider adapters.                       *)
(***************************************************************************)
CACHE_TTL == 1800

\* lines 127-129: the md5 digest of "prefix:arg|arg|...", taken here as the
\* text it digests (no two texts of the model share a digest)
get_cache_key(prefix, args) == <<prefix>> \o args

\* get_cached that leaves an expired entry in place
get_cached_no_evict(c, key) ==
    IF key \in DOMAIN c /\ now - c[key].timestamp < CACHE_TTL
    THEN [value |-> Some(c[key].data), cache |-> c]
    ELSE [value |-> Null, cache |-> c]

\* lines 131-137: the value read and the cache as the read leaves it
get_cached(c, key) ==
    IF key \in DOMAIN c
    THEN IF now - c[key].timestamp < CACHE_TTL
         THEN [value |-> Some(c[key].data), cache |-> c]
         ELSE [value |-> Null, cache |-> [k \in (DOMAIN c) \ {key} |-> c[k]]]
    ELSE [value |-> Null, cache |-> c]

\* lines 139-140
set_cache(c, key, data) ==
    [k \in (DOMAIN c) \cup {key} |->
        IF k = key THEN [data |-> data, timestamp |-> now] ELSE c[k]]

\* "if cached:" -- None and the empty list are both false
truthy(opt) == opt # Null /\ opt[1] # <<>>

\* lines 164-178, the body of the try block: it raises, or it yields the
\* list to cache and return (ok), or it falls through
places_live(answer) ==
    IF answer.kind # "json" THEN [raised |-> TRUE, ok |-> FALSE, data |-> <<>>]
    ELSE IF answer.status = "OK"
         THEN IF ~answer.has_results \/ answer.results = Null
              THEN [raised |-> TRUE, ok |-> FALSE, data |-> <<>>]
              ELSE [raised |-> FALSE, ok |-> TRUE, data |-> take(answer.results[1], 10)]
         ELSE [raised |-> FALSE, ok |-> FALSE, data |-> <<>>]

\* lines 205-219
movies_live(answer) ==
    IF answer.kind # "json" THEN [raised |-> TRUE, ok |-> FALSE, data |-> <<>>]
    ELSE IF answer.has_results
         THEN IF answer.results = Null
              THEN [raised |-> TRUE, ok |-> FALSE, data |-> <<>>]
              ELSE [raised |-> FALSE, ok |-> TRUE, data |-> take(answer.results[1], 10)]
         ELSE [raised |-> FALSE, ok |-> FALSE, data |-> <<>>]

\* an except clause that lets the exception through
except_nothing(live) == live

\* lines 179-180 and 220-221: except Exception -- print and fall through
except_Exception(live) ==
    IF live.raised THEN [raised |-> FALSE, ok |-> FALSE, data |-> <<>>] ELSE live

\* a fetch that also caches what it falls back to
fetch_caching_fallback(c, has_key, key, live, mock) ==
    IF ~has_key
    THEN [data |-> mock, cache |-> c, via |-> "fallback", called |-> FALSE,
          raised |-> FALSE]
    ELSE LET got == get_cached(c, key)
             out == except_Exception(live)
         IN  IF truthy(got.value)
             THEN [data |-> got.value[1], cache |-> got.cache, via |-> "cache",
                   called |-> FALSE, raised |-> FALSE]
             ELSE IF out.ok
                  THEN [data |-> out.data, cache |-> set_cache(got.cache, key, out.data),
                        via |-> "live", called |-> TRUE, raised |-> FALSE]
                  ELSE [data |-> mock, cache |-> set_cache(got.cache, key, mock),
                        via |-> "fallback", called |-> TRUE, raised |-> FALSE]

\* the frame shared by lines 142-182 and 184-223: no credential, cache
\* hit, live call, static fallback.  live is the outcome of the try block.
fetch(c, has_key, key, live, mock) ==
    IF ~has_key
    THEN [data |-> mock, cache |-> c, via |-> "fallback", called |-> FALSE,
          raised |-> FALSE]
    ELSE LET got == get_cached(c, key)
             out == except_Exception(live)
         IN  IF truthy(got.value)
             THEN [data |-> got.value[1], cache |-> got.cache, via |-> "cache",
                   called |-> FALSE, raised |-> FALSE]
             ELSE IF out.raised
                  THEN [data |-> <<>>, cache |-> got.cache, via |-> "raise",
                        called |-> TRUE, raised |-> TRUE]
                  ELSE IF out.ok
                       THEN [data |-> out.data,
                             cache |-> set_cache(got.cache, key, out.data),
                             via |-> "live", called |-> TRUE, raised |-> FALSE]
                       ELSE [data |-> mock, cache |-> got.cache, via |-> "fallback",
                             called |-> TRUE, raised |-> FALSE]

\* lines 142-182
fetch_google_places(c, mood, budget_level, lat, lng, answer) ==
    fetch(c, env.GOOGLE_PLACES_KEY,
          get_cache_key("places", <<mood, budget_level, lat, lng>>),
          places_live(answer), get_mock_places)

\* lines 184-223
fetch_tmdb_movies(c, mood, answer) ==
    fetch(c, env.TMDB_API_KEY, get_cache_key("movies", <<mood>>),
          movies_live(answer), get_mock_movies)

\* the adapter operations on their own
FetchPlaces(mood, budget_level, lat, lng, answer) ==
    /\ LET r == fetch_google_places(cache, mood, budget_level, lat, lng, answer)
       IN  /\ cache' = r.cache
           /\ response' = [op |-> "fetch_google_places",
                           key |-> get_cache_key("places", <<mood, budget_level, lat, lng>>),
                           has_key |-> env.GOOGLE_PLACES_KEY,
                           answer |-> IF r.called THEN answer ELSE [kind |-> "no_call"],
                           data |-> r.data, via |-> r.via, raised |-> r.raised]
    /\ UNCHANGED <<groups, members, suggestions, polls, chat_messages, now, env, sess, cast>>

FetchMovies(mood, answer) ==
    /\ LET r == fetch_tmdb_movies(cache, mood, answer)
       IN  /\ cache' = r.cache
           /\ response' = [op |-> "fetch_tmdb_movies",
                           key |-> get_cache_key("movies", <<mood>>),
                           has_key |-> env.TMDB_API_KEY,
                           answer |-> IF r.called THEN answer ELSE [kind |-> "no_call"],
                           data |-> r.data, via |-> r.via, raised |-> r.raised]
    /\ UNCHANGED <<groups, members, suggestions, polls, chat_messages, now, env, sess, cast>>

GetCached(key) ==
    /\ LET r == get_cached(cache, key)
       IN  /\ cache' = r.cache
           /\ response' = [op |-> "get_cached", key |-> key, value |-> r.value,
                           age |-> IF key \in DOMAIN cache
                                   THEN now - cache[key].timestamp ELSE -1]
    /\ UNCHANGED <<groups, members, suggestions, polls, chat_messages, now, env, sess, cast>>

\* the wall clock moves on
Tick(d) ==
    /\ now + d <= MaxNow
    /\ now' = now + d
    /\ UNCHANGED <<groups, members, suggestions, polls, chat_messages, cache, env, sess,
                   response, cast>>

(***************************************************************************)
(* Suggestions.                                                            *)
(***************************************************************************)
\* lines 245-248; "price_level or 1" turns None and 0 into 1
map_price_level_to_inr(price_level) ==
    LET level == IF price_level = Null \/ price_level = Some(0) THEN 1
                 ELSE price_level[1]
    IN  CASE level = 0 -> 300
          [] level = 1 -> 700
          [] level = 2 -> 1500
          [] level = 3 -> 3000
          [] level = 4 -> 4500
          [] OTHER -> 1000

RECURSIVE gcd(_, _)
gcd(a, b) == IF b = 0 THEN a ELSE gcd(b, a % b)

RECURSIVE sum(_)
sum(xs) == IF xs = <<>> THEN 0 ELSE Head(xs) + sum(Tail(xs))

\* sum(xs) / len(xs) as a fraction in lowest terms
mean(xs) ==
    LET t == sum(xs)
        d == gcd(IF t < 0 THEN -t ELSE t, Len(xs))
    IN  <<t \div d, Len(xs) \div d>>

\* lines 394-400: the coordinates of the group's members that are neither
\* None nor 0 ("if m.location_lat"), each axis on its own
RECURSIVE known_coords(_, _, _)
known_coords(rows, g, axis) ==
    IF rows = <<>> THEN <<>>
    ELSE LET m == Head(rows)
             rest == known_coords(Tail(rows), g, axis)
         IN  IF m.group_id = g /\ m[axis] # Null /\ m[axis] # Some(0)
             THEN <<m[axis][1]>> \o rest
             ELSE rest

centroid_lat(g) ==
    LET lats == known_coords(members, g, "location_lat")
    IN  IF lats # <<>> THEN mean(lats) ELSE DefaultLat

centroid_lng(g) ==
    LET lngs == known_coords(members, g, "location_lng")
    IN  IF lngs # <<>> THEN mean(lngs) ELSE DefaultLng

\* str(x) of an optional integer
py_str(x) == IF x = Null THEN Some("None") ELSE Some(ToString(x[1]))

\* lines 407-419: the row built from a place, or the exception raised by
\* place.get("geometry", {}).get(...) when geometry is null
place_suggestion(g, place) ==
    IF dict_get(place, "geometry", Some("{}")) = Null
    THEN [raised |-> TRUE]
    ELSE [raised |-> FALSE,
          row |-> [group_id |-> g,
                   type |-> "place",
                   source_id |-> dict_get(place, "place_id", Null),
                   title |-> dict_get(place, "name", Some("Unknown Place")),
                   description |-> dict_get(place, "vicinity", Some("")),
                   rating |-> dict_get(place, "rating", Some(400)),
                   price_estimate |->
                       Some(map_price_level_to_inr(dict_get(place, "price_level", Null)))]]

\* lines 426-438: the row built from a movie, or the exception raised by
\* None / 2 when vote_average is null
movie_suggestion(g, movie) ==
    IF dict_get(movie, "vote_average", Some(700)) = Null
    THEN [raised |-> TRUE]
    ELSE [raised |-> FALSE,
          row |-> [group_id |-> g,
                   type |-> "movie",
                   source_id |-> py_str(dict_get(movie, "id", Null)),
                   title |-> dict_get(movie, "title", Some("Unknown Movie")),
                   description |-> dict_get(movie, "overview", Some("")),
                   rating |-> Some(dict_get(movie, "vote_average", Some(700))[1] \div 2),
                   price_estimate |-> Some(600)]]

\* the loop of lines 406 and 425 without the [:4]
all_candidates(data) == data

\* places[:4], movies[:4]
first_four(data) == take(data, 4)

\* session.commit() of the rows added: Suggestion.title is declared str,
\* not Optional (line 40), so a row without a title is refused
commit_refused(rows) == \E i \in 1..Len(rows) : rows[i].title = Null

\* POST /group/{code}/suggestions
create_suggestions(code, source, answer) ==
    /\ Len(suggestions) + 4 <= MaxSuggestions
    /\ LET g == group_by_code(code)
       IN  IF g = 0
           THEN /\ response' = [op |-> "create_suggestions", status |-> 404,
                                code |-> code]
                /\ UNCHANGED <<suggestions, cache>>
           ELSE LET mood == IF groups[g].mood = None THEN "chill" ELSE groups[g].mood
                    budget == IF groups[g].budget_level = None THEN "medium"
                              ELSE groups[g].budget_level
                    r == IF source = "google"
                         THEN fetch_google_places(cache, mood, budget, centroid_lat(g),
                                                  centroid_lng(g), answer)
                         ELSE IF source = "tmdb"
                              THEN fetch_tmdb_movies(cache, mood, answer)
                              ELSE [data |-> <<>>, cache |-> cache, via |-> "none",
                                    called |-> FALSE, raised |-> FALSE]
                    picked == first_four(r.data)
                    built == [i \in 1..Len(picked) |->
                                 IF source = "google" THEN place_suggestion(g, picked[i])
                                 ELSE movie_suggestion(g, picked[i])]
                    rows == [i \in 1..Len(picked) |-> built[i].row]
                    failed == \/ r.raised
                              \/ \E i \in 1..Len(picked) : built[i].raised
                    ok == ~failed /\ ~commit_refused(rows)
                IN  /\ cache' = r.cache
                    /\ suggestions' = IF ok THEN suggestions \o rows ELSE suggestions
                    /\ response' = [op |-> "create_suggestions",
                                    status |-> IF ok THEN 200 ELSE 500,
                                    code |-> code, source |-> source,
                                    fetched |-> Len(r.data), candidates |-> picked,
                                    added |-> IF ok THEN Len(rows) ELSE 0,
                                    centroid |-> <<centroid_lat(g), centroid_lng(g)>>]
    /\ UNCHANGED <<groups, members, polls, chat_messages, now, env, sess, cast>>

\* GET /group/{code}/suggestions
get_suggestions(code) ==
    /\ LET g == group_by_code(code)
       IN  IF g = 0
           THEN response' = [op |-> "get_suggestions", status |-> 404, code |-> code]
           ELSE response' = [op |-> "get_suggestions", status |-> 200, code |-> code,
                             body |-> {i \in 1..Len(suggestions) :
                                          suggestions[i].group_id = g}]
    /\ UNCHANGED <<groups, members, suggestions, polls, chat_messages, cache, now, env,
                   sess, cast>>

(***************************************************************************)
(* Scoring.  A score is an exact fraction <<numerator, denominator>> in    *)
(* lowest terms.                                                           *)
(***************************************************************************)
fraction(n, d) == LET k == gcd(n, d) IN <<n \div k, d \div k>>

\* line 264-265: budget_map.get(group_budget, 2000)
budget_limit(group_budget) ==
    CASE group_budget = "low" -> 1000
      [] group_budget = "medium" -> 2000
      [] group_budget = "high" -> 4000
      [] OTHER -> 2000

\* lines 260-279.  rating is in hundredths; "x or default" takes the
\* default for None and for 0
calculate_score(suggestion, group_budget, votes, max_votes, distance_km, max_distance) ==
    LET rating == IF suggestion.rating = Null \/ suggestion.rating = Some(0)
                  THEN 350 ELSE suggestion.rating[1]
        limit == budget_limit(group_budget)
        price == IF suggestion.price_estimate = Null \/ suggestion.price_estimate = Some(0)
                 THEN 1000 ELSE suggestion.price_estimate[1]
        \* budget_match in tenths
        budget_match == IF price <= limit THEN 10
                        ELSE IF 10 * price <= 12 * limit THEN 5 ELSE 1
        mv == IF max_votes > 0 THEN max_votes ELSE 1
        md == IF max_distance > 0 THEN max_distance ELSE 1
        near == IF max_distance - distance_km > 0 THEN max_distance - distance_km ELSE 0
        \* the four weighted terms over the denominator 1000 * mv * md
        rating_term == rating * mv * md
        budget_term == 20 * budget_match * mv * md
        vote_term == IF max_votes > 0 THEN 200 * votes * md ELSE 0
        proximity_term == IF max_distance > 0 THEN 100 * near * mv ELSE 50 * mv * md
    IN  fraction(rating_term + budget_term + vote_term + proximity_term, 1000 * mv * md)

\* the scoring function on its own
CalculateScore(suggestion, group_budget, votes, max_votes, distance_km, max_distance) ==
    /\ response' = [op |-> "calculate_score", suggestion |-> suggestion,
                    group_budget |-> group_budget, votes |-> votes,
                    max_votes |-> max_votes, distance_km |-> distance_km,
                    max_distance |-> max_distance,
                    score |-> calculate_score(suggestion, group_budget, votes, max_votes,
                                              distance_km, max_distance)]
    /\ UNCHANGED <<groups, members, suggestions, polls, chat_messages, cache, now, env,
                   sess, cast>>

(***************************************************************************)
(* Chat and the assistant.  A text is a sequence of words; "x in text" is  *)
(* true when x occurs inside one of the words.                             *)
(***************************************************************************)
Words == {"@PlanPal", "@planpal", "SUGGEST", "suggest", "safety", "compare", "pros",
          "proscons", "hello"}

\* str.lower(), word by word
lower_word(w) ==
    CASE w = "@PlanPal" -> "@planpal"
      [] w = "SUGGEST" -> "suggest"
      [] OTHER -> w
py_lower(text) == [i \in DOMAIN text |-> lower_word(text[i])]

\* the strings looked for that occur inside a word
substrings(w) ==
    CASE w = "proscons" -> {"proscons", "pros"}
      [] OTHER -> {w}
\* x in text
occurs(x, text) == \E i \in DOMAIN text : x \in substrings(text[i])

\* a/b >= c/d for fractions with positive denominators
geq(x, y) == x[1] * y[2] >= y[1] * x[2]

\* the list after list.sort(key=score, reverse=True) were the sort to
\* reverse the order of equal elements
RECURSIVE sort_reverse_ties_flipped(_)
sort_reverse_ties_flipped(scored) ==
    IF scored = <<>> THEN <<>>
    ELSE LET rest == sort_reverse_ties_flipped(Tail(scored))
             x == Head(scored)
             ahead == {i \in 1..Len(rest) : geq(rest[i][2], x[2])}
             k == Cardinality(ahead)
         IN  SubSeq(rest, 1, k) \o <<x>> \o SubSeq(rest, k + 1, Len(rest))

\* line 569: scored.sort(key=lambda x: x[1], reverse=True).  The sort is
\* stable: each element goes behind the elements of a greater or equal key
\* that came before it
RECURSIVE sort_reverse(_)
sort_reverse(scored) ==
    IF scored = <<>> THEN <<>>
    ELSE LET front == sort_reverse(SubSeq(scored, 1, Len(scored) - 1))
             x == scored[Len(scored)]
             ahead == {i \in 1..Len(front) : geq(front[i][2], x[2])}
             k == Cardinality(ahead)
         IN  SubSeq(front, 1, k) \o <<x>> \o SubSeq(front, k + 1, Len(front))

\* f"{score:.2f}": the score in hundredths, halves rounded up (the
\* rounding of the binary float at an exact half is not modelled)
format_2f(score) == (200 * score[1] + score[2]) \div (2 * score[2])

\* lines 562-577
top_picks(rows, group) ==
    LET budget == IF group.budget_level = None THEN "medium" ELSE group.budget_level
        scored == [i \in 1..Len(rows) |->
                      <<rows[i], calculate_score(rows[i], budget, 0, 1, 0, 10)>>]
        top3 == take(sort_reverse(scored), 3)
    IN  [kind |-> "top_picks",
         entries |-> [i \in 1..Len(top3) |->
                         [title |-> top3[i][1].title, rating |-> top3[i][1].rating,
                          price_estimate |-> top3[i][1].price_estimate,
                          score |-> format_2f(top3[i][2])]]]

\* what lines 582-585 and 590-594 print of a suggestion
shown(row) == [title |-> row.title, rating |-> row.rating,
               price_estimate |-> row.price_estimate]

\* lines 562-599 were "safety" looked for before "suggest"
intent_reply_safety_first(rows, group, text_lower) ==
    IF occurs("safety", text_lower) THEN [kind |-> "safety"]
    ELSE IF occurs("suggest", text_lower) THEN top_picks(rows, group)
    ELSE IF occurs("compare", text_lower)
         THEN IF Len(rows) >= 2
              THEN [kind |-> "comparison", first |-> shown(rows[1]),
                    second |-> shown(rows[2])]
              ELSE [kind |-> "need_2"]
    ELSE IF (occurs("proscons", text_lower) \/ occurs("pros", text_lower)) /\ rows # <<>>
         THEN [kind |-> "proscons", of |-> shown(rows[1]).title]
    ELSE [kind |-> "help"]

\* lines 562-599: the if/elif chain over the lowercased text
intent_reply(rows, group, text_lower) ==
    IF occurs("suggest", text_lower) THEN top_picks(rows, group)
    ELSE IF occurs("safety", text_lower) THEN [kind |-> "safety"]
    ELSE IF occurs("compare", text_lower)
         THEN IF Len(rows) >= 2
              THEN [kind |-> "comparison", first |-> shown(rows[1]),
                    second |-> shown(rows[2])]
              ELSE [kind |-> "need_2"]
    ELSE IF (occurs("proscons", text_lower) \/ occurs("pros", text_lower)) /\ rows # <<>>
         THEN [kind |-> "proscons", of |-> shown(rows[1]).title]
    ELSE [kind |-> "help"]

\* line 556: the suggestions of the group, in persisted order
suggestions_of(group_id) == SelectSeq(suggestions, LAMBDA row : row.group_id = group_id)

\* line 560: the group of that id, or a group without settings where the
\* id is unknown (no suggestion carries an unknown group id)
group_by_id(group_id) ==
    IF group_id \in 1..Len(groups) THEN groups[group_id]
    ELSE [code |-> None, mood |-> None, budget_level |-> None]

\* lines 552-599 without lines 557-558
handle_planpal_query_no_short_circuit(group_id, text) ==
    intent_reply(suggestions_of(group_id), group_by_id(group_id), py_lower(text))

\* lines 552-599
handle_planpal_query(group_id, text) ==
    IF suggestions_of(group_id) = <<>>
    THEN [kind |-> "none_yet"]
    ELSE intent_reply(suggestions_of(group_id), group_by_id(group_id), py_lower(text))

\* POST /group/{code}/chat
post_chat(code, member_id, message) ==
    /\ Len(chat_messages) < MaxChat
    /\ LET g == group_by_code(code)
       IN  IF g = 0
           THEN /\ response' = [op |-> "post_chat", status |-> 404, code |-> code]
                /\ UNCHANGED chat_messages
           ELSE /\ chat_messages' = Append(chat_messages,
                                           [group_id |-> g, member_id |-> member_id,
                                            message |-> message])
                /\ response' = [op |-> "post_chat", status |-> 200, code |-> code,
                                message |-> message,
                                bot_response |->
                                    IF occurs("@PlanPal", message)
                                    THEN Some(handle_planpal_query(g, message))
                                    ELSE Null]
    /\ UNCHANGED <<groups, members, suggestions, polls, cache, now, env, sess, cast>>

\* POST /bot/query
bot_query(group_id, text) ==
    /\ response' = [op |-> "bot_query", status |-> 200, group_id |-> group_id,
                    text |-> text, reply |-> Some(handle_planpal_query(group_id, text))]
    /\ UNCHANGED <<groups, members, suggestions, polls, chat_messages, cache, now, env,
                   sess, cast>>

(***************************************************************************)
(* Specifications.                                                         *)
(***************************************************************************)
\* groups, polls and votes, one request at a time
Next ==
    \/ \E code \in Codes : create_group(code, None, None)
    \/ \E code \in RequestCodes : get_group(code)
    \/ \E code \in RequestCodes, options \in OptionLists : create_poll(code, options)
    \/ \E code \in RequestCodes, poll_id \in 1..(MaxPolls + 1), req \in VoteRequests :
          vote_poll(code, poll_id, req)

Spec == Init /\ [][Next]_vars

\* votes of concurrent requests
NextConc ==
    \/ \E code \in Codes : create_group(code, None, None)
    \/ \E code \in Codes, options \in OptionLists : create_poll(code, options)
    \/ \E s \in Sessions, code \in Codes, poll_id \in 1..(MaxPolls + 1), req \in VoteRequests :
          vote_load(s, code, poll_id, req)
    \/ \E s \in Sessions : vote_commit(s)

SpecConc == Init /\ [][NextConc]_vars

\* the adapters and the cache, under every configuration of credentials
InitAnyEnv ==
    /\ groups = <<>>
    /\ members = <<>>
    /\ suggestions = <<>>
    /\ polls = <<>>
    /\ chat_messages = <<>>
    /\ cache = [k \in {} |-> None]
    /\ now = 0
    /\ env \in [GOOGLE_PLACES_KEY : BOOLEAN, TMDB_API_KEY : BOOLEAN]
    /\ sess = [s \in Sessions |-> IdleSession]
    /\ response = [op |-> "none", status |-> 0]
    /\ cast = <<>>

TickSteps == {CACHE_TTL - 1, CACHE_TTL, CACHE_TTL + 1}
AdapterKeys == {get_cache_key("places", <<"chill", "medium", DefaultLat, DefaultLng>>),
                get_cache_key("movies", <<"chill">>)}

NextAdapter ==
    \/ \E answer \in PlacesAnswers(LivePlace) :
          FetchPlaces("chill", "medium", DefaultLat, DefaultLng, answer)
    \/ \E answer \in MoviesAnswers(LiveMovie) : FetchMovies("chill", answer)
    \/ \E key \in AdapterKeys : GetCached(key)
    \/ \E d \in TickSteps : Tick(d)

SpecAdapter == InitAnyEnv /\ [][NextAdapter]_vars

\* groups and their members
NextGroups ==
    \/ \E code \in Codes, mood \in Moods, b \in BudgetLevels : create_group(code, mood, b)
    \/ \E code \in RequestCodes, lat \in Coords, lng \in Coords : join_group(code, lat, lng)
    \/ \E code \in RequestCodes : get_group(code)

SpecGroups == Init /\ [][NextGroups]_vars

\* suggestion generation for one group, under every configuration of
\* credentials
\* answers: nothing, two complete records, or ten records of one shape
CandidateLists(complete, cs) ==
    {<<>>, repeat(complete, 2)} \cup {repeat(c, 10) : c \in cs}
JsonAnswers(statuses, complete, cs) ==
    [kind : {"json"}, status : statuses, has_results : {TRUE},
     results : {Some(l) : l \in CandidateLists(complete, cs)}]
SuggestAnswers(source) ==
    IF source = "google"
    THEN {[kind |-> "timeout"]} \cup JsonAnswers({"OK"}, LivePlace, PlaceCandidates)
    ELSE IF source = "tmdb"
         THEN {[kind |-> "timeout"]} \cup JsonAnswers({None}, LiveMovie, MovieCandidates)
         ELSE {[kind |-> "timeout"]}

NextSuggest ==
    \/ create_group("AAAAAA", None, "low")
    \/ \E code \in {"AAAAAA", "NOTEXIST"}, source \in Sources :
          \E answer \in SuggestAnswers(source) : create_suggestions(code, source, answer)
    \/ \E code \in {"AAAAAA", "NOTEXIST"} : get_suggestions(code)

SpecSuggest == InitAnyEnv /\ [][NextSuggest]_vars

\* members joining with or without coordinates, then suggestion
\* generation from the static dataset or a failed live call
NextCentroid ==
    \/ create_group("AAAAAA", None, "low")
    \/ \E code \in {"AAAAAA", "NOTEXIST"}, lat \in Coords, lng \in Coords :
          join_group(code, lat, lng)
    \/ \E code \in {"AAAAAA", "NOTEXIST"}, source \in {"google", "tmdb"} :
          create_suggestions(code, source, [kind |-> "timeout"])

SpecCentroid == InitAnyEnv /\ [][NextCentroid]_vars

\* the scoring function over ratings, prices, budgets, votes and
\* distances on and around every threshold
ScoredRatings == {Null, Some(0), Some(500)}
ScoredPrices == {Null, Some(600), Some(1200), Some(5000)}
ScoredBudgets == {"low", "medium", "high", "lavish"}
VotePairs == {<<0, 0>>, <<1, 2>>, <<2, 2>>}
DistancePairs == {<<0, 0>>, <<0, 10>>, <<5, 10>>, <<15, 10>>}

NextScore ==
    \E r \in ScoredRatings, p \in ScoredPrices, b \in ScoredBudgets,
       v \in VotePairs, d \in DistancePairs :
        CalculateScore([rating |-> r, price_estimate |-> p], b, v[1], v[2], d[1], d[2])

SpecScore == Init /\ [][NextScore]_vars

\* chat and assistant queries over two groups whose suggestions come one
\* at a time from a live Places answer or four at a time from the static
\* movies
Texts == {<<"hello">>, <<"@PlanPal", "hello">>, <<"@planpal", "suggest">>,
          <<"@PlanPal", "SUGGEST", "safety">>, <<"@PlanPal", "safety", "compare">>,
          <<"@PlanPal", "compare", "proscons">>, <<"@PlanPal", "pros">>,
          <<"suggest", "compare">>}
PostedTexts == {<<"hello">>, <<"@planpal", "suggest">>, <<"@PlanPal", "SUGGEST", "safety">>}

NextChat ==
    \/ create_group("AAAAAA", None, None)
    \/ create_group("BBBBBB", None, "low")
    \/ \E code \in Codes :
          create_suggestions(code, "google",
                             [kind |-> "json", status |-> "OK", has_results |-> TRUE,
                              results |-> Some(<<LivePlace>>)])
    \/ \E code \in Codes : create_suggestions(code, "tmdb", [kind |-> "timeout"])
    \/ \E code \in {"AAAAAA", "NOTEXIST"}, message \in PostedTexts :
          post_chat(code, 1, message)
    \/ \E group_id \in 1..(MaxGroups + 1), text \in Texts : bot_query(group_id, text)

SpecChat == InitAnyEnv /\ [][NextChat]_vars

(***************************************************************************)
(* Properties.                                                             *)
(***************************************************************************)
GroupScopedOps == {"join_group", "get_group", "create_suggestions",
                   "get_suggestions", "create_poll", "vote_poll", "post_chat"}

\* C1: whatever the interleaving of concurrent vote_poll requests on a
\* poll, every vote of a request that completed is in the stored ledger:
\* each option's list holds as many entries as were cast on it.
C1_NoVoteLost ==
    \A p \in 1..Len(polls) :
        \A o \in DOMAIN cast[p] :
            /\ o \in DOMAIN polls[p].votes
            /\ Len(polls[p].votes[o]) = Len(cast[p][o])

\* C2: after any sequence of successful vote_poll calls, each poll's
\* ledger maps every option voted on to exactly the entries cast on it, in
\* call order, with nothing deduplicated, removed or reordered.
C2_LedgerIsCastSequence ==
    \A p \in 1..Len(polls) : polls[p].votes = cast[p]

\* a member has voted twice on one option and both entries are kept
C2_Witness ==
    \E p \in 1..Len(polls) : \E o \in DOMAIN polls[p].votes :
        /\ Len(polls[p].votes[o]) = 2
        /\ polls[p].votes[o][1] = polls[p].votes[o][2]

\* C3: a group-scoped operation called with a code that matches no group
\* reports not-found (404) and changes no table.
C3_UnknownGroupNotFound ==
    [][(/\ response'.op \in GroupScopedOps
        /\ \A i \in 1..Len(groups) : groups[i].code # response'.code)
       => (response'.status = 404 /\ UNCHANGED db)]_vars

\* C4: vote_poll with a poll id that matches no poll reports not-found
\* (404) and leaves every poll's ledger unchanged.
C4_UnknownPollNotFound ==
    [][(/\ response'.op = "vote_poll"
        /\ response'.poll_id \notin 1..Len(polls))
       => (response'.status = 404 /\ polls' = polls)]_vars

\* a vote on an unknown poll id was refused while a poll holds votes
C4_Witness ==
    /\ response.op = "vote_poll"
    /\ response.poll_id \notin 1..Len(polls)
    /\ response.status = 404
    /\ \E p \in 1..Len(polls) : DOMAIN polls[p].votes # {}

\* C5: every option id that is a key of a poll's ledger is the id of one
\* of the poll's declared options.
C5_VotedOptionsDeclared ==
    \A p \in 1..Len(polls) :
        \A o \in DOMAIN polls[p].votes :
            \E i \in 1..Len(polls[p].options.options) :
                polls[p].options.options[i] = o

FetchOps == {"fetch_google_places", "fetch_tmdb_movies"}

\* C6: a value stored at time T is stamped T; a read before T + 1800
\* returns it unchanged and leaves the cache alone; a read after T + 1800
\* is a miss and removes the entry.
C6_CacheTTL ==
    [][/\ (/\ response'.op = "get_cached"
           /\ now' = now
           /\ response'.key \in DOMAIN cache)
          => LET k == response'.key
                 T == cache[k].timestamp
             IN  /\ now < T + 1800
                    => (response'.value = Some(cache[k].data) /\ cache' = cache)
                 /\ now > T + 1800
                    => (response'.value = Null /\ k \notin DOMAIN cache')
       /\ (/\ response'.op \in FetchOps
           /\ now' = now
           /\ response'.via = "live")
          => /\ response'.key \in DOMAIN cache'
             /\ cache'[response'.key] = [data |-> response'.data, timestamp |-> now]
       /\ (/\ response'.op \in FetchOps
           /\ now' = now
           /\ response'.via = "cache")
          => /\ response'.key \in DOMAIN cache
             /\ now < cache[response'.key].timestamp + 1800
             /\ response'.data = cache[response'.key].data
             /\ cache' = cache
      ]_vars

\* an entry older than the TTL was read: a miss, and the entry is gone
C6_Witness ==
    /\ response.op = "get_cached"
    /\ response.age > CACHE_TTL
    /\ response.value = Null
    /\ response.key \notin DOMAIN cache

\* the answers that are a successful live call
LiveSuccess(op, answer) ==
    /\ answer.kind = "json"
    /\ op = "fetch_google_places" => answer.status = "OK"
    /\ answer.has_results
    /\ answer.results # Null

\* the answers that are a provider failure
ProviderFailed(op, answer) ==
    \/ answer.kind \in {"timeout", "error", "bad_json"}
    \/ /\ answer.kind = "json"
       /\ \/ op = "fetch_google_places" /\ answer.status # "OK"
          \/ ~answer.has_results
          \/ answer.results = Null

\* C7: a fetch writes a cache entry only when its live call succeeded; a
\* fetch that returns the static dataset writes nothing, and the only
\* entry it may remove is the expired entry of the key it read.
C7_FallbackNotCached ==
    [][(response'.op \in FetchOps /\ now' = now)
       => LET written == {k \in DOMAIN cache' :
                             k \notin DOMAIN cache \/ cache'[k] # cache[k]}
              removed == (DOMAIN cache) \ (DOMAIN cache')
          IN  /\ written # {} => LiveSuccess(response'.op, response'.answer)
              /\ response'.via = "fallback" => written = {}
              /\ \A k \in removed :
                    /\ k = response'.key
                    /\ now - cache[k].timestamp >= CACHE_TTL
      ]_vars

\* the provider failed, the static dataset was returned, and the entries
\* of the cache are the ones another fetch put there
C7_Witness ==
    /\ response.op \in FetchOps
    /\ response.via = "fallback"
    /\ response.answer.kind = "timeout"
    /\ DOMAIN cache # {}

StaticDataset(op) ==
    IF op = "fetch_google_places" THEN get_mock_places ELSE get_mock_movies

\* C8: a fetch never raises; without a credential it returns the static
\* dataset of 4 records of its kind, and so it does when the provider fails.
C8_FetchNeverRaises ==
    response.op \in FetchOps
    => /\ ~response.raised
       /\ ~response.has_key
          => (response.data = StaticDataset(response.op) /\ Len(response.data) = 4)
       /\ (response.answer.kind # "no_call"
           /\ ProviderFailed(response.op, response.answer))
          => response.data = StaticDataset(response.op)

\* the provider answered OK without a results list: static dataset
C8_Witness ==
    /\ response.op = "fetch_google_places"
    /\ response.has_key
    /\ response.answer.kind = "json"
    /\ response.answer.status = "OK"
    /\ ~response.answer.has_results
    /\ response.data = get_mock_places

missing_or_null(d, field) == field \notin DOMAIN d \/ d[field] = Null

\* C9: create_suggestions does not fail on a candidate whose optional field
\* is missing or null; it persists one suggestion per candidate, with
\* rating 4.0 and price 700 for a place and rating 3.5 for a movie where
\* the provider gave none.
C9_MissingFieldsDefaulted ==
    (response.op = "create_suggestions" /\ response.status # 404)
    => /\ response.status = 200
       /\ response.added = Len(response.candidates)
       /\ \A i \in 1..Len(response.candidates) :
             LET c == response.candidates[i]
                 row == suggestions[Len(suggestions) - response.added + i]
             IN  /\ (response.source = "google" /\ missing_or_null(c, "rating"))
                    => row.rating = Some(400)
                 /\ (response.source = "google" /\ missing_or_null(c, "price_level"))
                    => row.price_estimate = Some(700)
                 /\ (response.source = "tmdb" /\ missing_or_null(c, "vote_average"))
                    => row.rating = Some(350)

\* C10: one create_suggestions call appends at most 4 rows, of type place
\* for source google and movie for source tmdb, and leaves the rows that
\* were there as they were.
C10_AtMostFourAdded ==
    [][response'.op = "create_suggestions"
       => /\ Len(suggestions') >= Len(suggestions)
          /\ Len(suggestions') <= Len(suggestions) + 4
          /\ SubSeq(suggestions', 1, Len(suggestions)) = suggestions
          /\ \A i \in (Len(suggestions) + 1)..Len(suggestions') :
                \/ response'.source = "google" /\ suggestions'[i].type = "place"
                \/ response'.source = "tmdb" /\ suggestions'[i].type = "movie"
      ]_vars

\* the adapter returned 10 candidates to a group that had suggestions,
\* and 4 rows were added
C10_Witness ==
    /\ response.op = "create_suggestions"
    /\ response.status = 200
    /\ response.fetched = 10
    /\ response.added = 4
    /\ Len(suggestions) > 4

\* the documented price table
PriceTable == [t \in 0..4 |-> CASE t = 0 -> 300 [] t = 1 -> 700 [] t = 2 -> 1500
                                [] t = 3 -> 3000 [] t = 4 -> 4500]

\* C11: the price estimate of a place suggestion is the table value of the
\* provider's price tier, for every tier 0..4, and 700 when the record has
\* no tier.
C11_PriceFromTable ==
    (response.op = "create_suggestions" /\ response.status = 200
     /\ response.source = "google")
    => \A i \in 1..Len(response.candidates) :
          LET c == response.candidates[i]
              row == suggestions[Len(suggestions) - response.added + i]
          IN  /\ "price_level" \notin DOMAIN c => row.price_estimate = Some(700)
              /\ ("price_level" \in DOMAIN c /\ c.price_level # Null
                  /\ c.price_level[1] \in 0..4)
                 => row.price_estimate = Some(PriceTable[c.price_level[1]])

\* the members of a group that have both coordinates
RECURSIVE located(_, _)
located(rows, g) ==
    IF rows = <<>> THEN <<>>
    ELSE LET m == Head(rows)
         IN  IF m.group_id = g /\ m.location_lat # Null /\ m.location_lng # Null
             THEN <<m>> \o located(Tail(rows), g)
             ELSE located(Tail(rows), g)

ExpectedCentroid(g) ==
    LET ms == located(members, g)
    IN  IF ms = <<>> THEN <<DefaultLat, DefaultLng>>
        ELSE << mean([i \in 1..Len(ms) |-> ms[i].location_lat[1]]),
                mean([i \in 1..Len(ms) |-> ms[i].location_lng[1]]) >>

\* C12: the centroid handed to the adapter is the mean latitude and the
\* mean longitude of the members that have a coordinate pair, and the
\* default location when no member has one; members at one point give
\* that point, also when its latitude or longitude is 0.
C12_CentroidOfKnownPairs ==
    (response.op = "create_suggestions" /\ response.status # 404)
    => response.centroid = ExpectedCentroid(group_by_code(response.code))

\* the score as documented: the defaults stand in for a rating and an
\* estimate that are absent, and for nothing else
documented_score(suggestion, group_budget, votes, max_votes, distance_km, max_distance) ==
    LET rating == IF suggestion.rating = Null THEN 350 ELSE suggestion.rating[1]
        limit == IF group_budget = "low" THEN 1000
                 ELSE IF group_budget = "high" THEN 4000 ELSE 2000
        price == IF suggestion.price_estimate = Null THEN 1000
                 ELSE suggestion.price_estimate[1]
        b == IF price <= limit THEN 10 ELSE IF 10 * price <= 12 * limit THEN 5 ELSE 1
        \* 0.5 * rating / 5, 0.2 * b, 0.2 * p and 0.1 * x, each in 1/1000 and
        \* over max_votes * max_distance where these are positive
        mv == IF max_votes > 0 THEN max_votes ELSE 1
        md == IF max_distance > 0 THEN max_distance ELSE 1
        x == IF max_distance > 0
             THEN (IF distance_km < max_distance THEN max_distance - distance_km ELSE 0)
             ELSE 0
    IN  fraction(rating * mv * md + 20 * b * mv * md
                   + (IF max_votes > 0 THEN 200 * votes * md ELSE 0)
                   + (IF max_distance > 0 THEN 100 * x * mv ELSE 50 * mv * md),
                 1000 * mv * md)

\* C13: calculate_score is 0.5*r + 0.2*b + 0.2*p + 0.1*x with the rating
\* default 3.5 and the price default 1000 used only for an absent rating
\* and an absent estimate; rating 5, price within budget, votes =
\* max_votes and distance 0 score 1.
C13_ScoreFormula ==
    response.op = "calculate_score"
    => /\ response.score =
             documented_score(response.suggestion, response.group_budget, response.votes,
                              response.max_votes, response.distance_km,
                              response.max_distance)
       /\ (/\ response.suggestion.rating = Some(500)
           /\ response.suggestion.price_estimate = Some(600)
           /\ response.votes = 2 /\ response.max_votes = 2
           /\ response.distance_km = 0 /\ response.max_distance = 10)
          => response.score = <<1, 1>>

\* the assistant's answer in the last response, its text and its group
asked ==
    \/ response.op = "bot_query"
    \/ response.op = "post_chat" /\ response.status = 200 /\ response.bot_response # Null
asked_reply == IF response.op = "bot_query" THEN response.reply[1]
               ELSE response.bot_response[1]
asked_text == IF response.op = "bot_query" THEN response.text ELSE response.message
asked_group == IF response.op = "bot_query" THEN response.group_id
               ELSE group_by_code(response.code)
asked_rows == suggestions_of(asked_group)
has_keyword(k) == occurs(k, py_lower(asked_text))

\* C14: for a group without suggestions the assistant answers with the
\* fixed "no suggestions yet" message whatever the text, and a chat message
\* that contains the trigger gets a bot response that is not null.
C14_NoSuggestionsReply ==
    /\ (asked /\ asked_rows = <<>>) => asked_reply = [kind |-> "none_yet"]
    /\ (response.op = "post_chat" /\ response.status = 200
        /\ occurs("@PlanPal", response.message))
       => response.bot_response # Null

\* a mention with keywords in a group that has no suggestions, while
\* another group has some
C14_Witness ==
    /\ response.op = "post_chat" /\ response.status = 200
    /\ occurs("@PlanPal", response.message)
    /\ has_keyword("suggest") /\ has_keyword("safety")
    /\ asked_rows = <<>>
    /\ suggestions # <<>>
    /\ response.bot_response = Some([kind |-> "none_yet"])

\* the score of a suggestion of the group asked about, in the neutral context
neutral_score(row) ==
    calculate_score(row,
                    IF group_by_id(asked_group).budget_level = None THEN "medium"
                    ELSE group_by_id(asked_group).budget_level,
                    0, 1, 0, 10)
\* row i ranks before row j: a greater score, or the same score and an
\* earlier place
ranks_before(rows, i, j) ==
    LET si == neutral_score(rows[i])
        sj == neutral_score(rows[j])
    IN  \/ si[1] * sj[2] > sj[1] * si[2]
        \/ si = sj /\ i < j

\* C15: asked to suggest in a group with n >= 1 suggestions, the assistant
\* lists min(3, n) entries: the suggestions of the highest score in the
\* neutral context, in descending order of score, those of equal score in
\* their persisted order.
C15_TopThreeStable ==
    (asked /\ asked_rows # <<>> /\ has_keyword("suggest"))
    => LET rows == asked_rows
           n == Len(rows)
           m == IF n < 3 THEN n ELSE 3
       IN  /\ asked_reply.kind = "top_picks"
           /\ Len(asked_reply.entries) = m
           /\ \E idx \in [1..m -> 1..n] :
                 /\ \A j, k \in 1..m : j < k => ranks_before(rows, idx[j], idx[k])
                 /\ \A i \in 1..n :
                       (\A j \in 1..m : idx[j] # i)
                       => \A j \in 1..m : ranks_before(rows, idx[j], i)
                 /\ \A j \in 1..m :
                       /\ asked_reply.entries[j].title = rows[idx[j]].title
                       /\ asked_reply.entries[j].rating = rows[idx[j]].rating
                       /\ asked_reply.entries[j].price_estimate
                             = rows[idx[j]].price_estimate

\* three entries out of more than three suggestions, the first two of them
\* different suggestions of the same score
C15_Witness ==
    /\ response.op = "bot_query"
    /\ has_keyword("suggest")
    /\ Len(asked_rows) > 3
    /\ asked_reply.kind = "top_picks"
    /\ Len(asked_reply.entries) = 3
    /\ asked_reply.entries[1].title # asked_reply.entries[2].title
    /\ \E i, j \in 1..Len(asked_rows) :
          /\ i < j
          /\ neutral_score(asked_rows[i]) = neutral_score(asked_rows[j])
          /\ asked_reply.entries[1].title = asked_rows[i].title
          /\ asked_reply.entries[2].title = asked_rows[j].title

\* C16: in every entry point that takes a message text, a text without the
\* literal "@PlanPal" gets no assistant reply; a chat message without it
\* is still appended to the chat log of its group.
C16_DispatcherOnlyOnTrigger ==
    [][/\ (/\ response'.op = "post_chat" /\ response'.status = 200
           /\ ~occurs("@PlanPal", response'.message))
          => /\ response'.bot_response = Null
             /\ Len(chat_messages') = Len(chat_messages) + 1
             /\ chat_messages'[Len(chat_messages')].message = response'.message
             /\ chat_messages'[Len(chat_messages')].group_id
                   = group_by_code(response'.code)
       /\ (response'.op = "bot_query" /\ ~occurs("@PlanPal", response'.text))
          => response'.reply = Null
      ]_vars

\* C17: no two groups have the same code, and the code of a group never
\* changes: creating a group under a code that is taken adds no group.
C17_CodesUniqueImmutable ==
    [][/\ \A i, j \in 1..Len(groups') : i # j => groups'[i].code # groups'[j].code
       /\ Len(groups') >= Len(groups)
       /\ \A i \in 1..Len(groups) : groups'[i].code = groups[i].code
      ]_vars

\* a create_group under the code of an existing group was refused
C17_Witness ==
    /\ response.op = "create_group"
    /\ response.status = 500
    /\ Cardinality({i \in 1..Len(groups) : groups[i].code = response.code}) = 1

\* C18: with at least one suggestion the intent is the first of suggest,
\* safety, compare, pros/proscons that the lowercased text contains;
\* compare with one suggestion gives the "need at least 2" text and with
\* two or more shows the first two persisted suggestions; a text with none
\* of the keywords gets the help text.
C18_IntentPriority ==
    (asked /\ asked_rows # <<>>)
    => LET rows == asked_rows
       IN  /\ has_keyword("suggest") => asked_reply.kind = "top_picks"
           /\ (~has_keyword("suggest") /\ has_keyword("safety"))
              => asked_reply = [kind |-> "safety"]
           /\ (~has_keyword("suggest") /\ ~has_keyword("safety") /\ has_keyword("compare"))
              => /\ Len(rows) = 1 => asked_reply = [kind |-> "need_2"]
                 /\ Len(rows) >= 2
                    => /\ asked_reply.kind = "comparison"
                       /\ asked_reply.first.title = rows[1].title
                       /\ asked_reply.first.rating = rows[1].rating
                       /\ asked_reply.first.price_estimate = rows[1].price_estimate
                       /\ asked_reply.second.title = rows[2].title
                       /\ asked_reply.second.rating = rows[2].rating
                       /\ asked_reply.second.price_estimate = rows[2].price_estimate
           /\ (/\ ~has_keyword("suggest") /\ ~has_keyword("safety")
               /\ ~has_keyword("compare")
               /\ (has_keyword("pros") \/ has_keyword("proscons")))
              => (asked_reply.kind = "proscons" /\ asked_reply.of = rows[1].title)
           /\ (/\ ~has_keyword("suggest") /\ ~has_keyword("safety")
               /\ ~has_keyword("compare") /\ ~has_keyword("pros")
               /\ ~has_keyword("proscons"))
              => asked_reply = [kind |-> "help"]

\* compare and proscons asked together of a group with one suggestion
C18_Witness ==
    /\ asked
    /\ Len(asked_rows) = 1
    /\ has_keyword("compare") /\ has_keyword("proscons")
    /\ asked_reply = [kind |-> "need_2"]

\* C19: a fetch whose key is cached and younger than the TTL returns the
\* cached value, the empty list included, and makes no outbound call.
C19_CachedWithinTTLNoCall ==
    [][(/\ response'.op \in FetchOps
        /\ now' = now
        /\ response'.has_key
        /\ response'.key \in DOMAIN cache
        /\ now - cache[response'.key].timestamp < CACHE_TTL)
       => /\ response'.data = cache[response'.key].data
          /\ response'.answer = [kind |-> "no_call"]
      ]_vars

\* C20: a vote sent under the code of group G for a poll of another group
\* leaves the ledger of that poll as it was.
C20_VoteStaysInGroup ==
    [][(/\ response'.op = "vote_poll"
        /\ response'.poll_id \in 1..Len(polls)
        /\ group_by_code(response'.code) # 0
        /\ group_by_code(response'.code) # polls[response'.poll_id].group_id)
       => polls'[response'.poll_id].votes = polls[response'.poll_id].votes
      ]_vars

====
